---- MODULE Spec2Model ----
(***************************************************************************)
(* Model of the ads.txt / app-ads.txt validator (src/app.py).              *)
(*                                                                         *)
(* Strings are sequences of one-character strings, so that split, strip,   *)
(* lower and upper are computed the way the Python code computes them.     *)
(*                                                                         *)
(* Two specifications share the module:                                    *)
(*   Spec   the run started by the button: reference preparation, the      *)
(*          ThreadPoolExecutor with one validate_domain task per target,   *)
(*          the requests of fetch_file_content and the as_completed loop;  *)
(*   SpecM  parse_ads_file, parse_reference_line and the matching loop of  *)
(*          validate_domain applied to file contents and reference lines   *)
(*          drawn from bounded sets.                                       *)
(***************************************************************************)
EXTENDS Integers, Sequences, FiniteSets, TLC

VARIABLES
    \* ---- the run (Spec) ----
    targets,        \* list of target hosts (app.py:223)
    raw_refs,       \* stripped non-empty reference lines (app.py:227)
    references,     \* parsed references (app.py:226-231)
    threads,        \* slider value, max_workers (app.py:188, 245)
    pcMain,         \* position of the script's main thread
    submitted,      \* number of tasks handed to executor.submit
    queue,          \* the executor's work queue: submitted, not yet started
    tasks,          \* one record per future
    collected,      \* futures in the order as_completed yielded them
    all_results,    \* the result rows (app.py:242)
    \* ---- parser and matcher (SpecM) ----
    content,        \* text of a fetched file
    refline,        \* one reference line
    file_records,   \* parse_ads_file(content)
    ref,            \* parse_reference_line(refline)
    outcome,        \* the row of validate_domain for ref
    mpc,            \* position in the parse/match pipeline
    \* ---- one call of fetch_file_content (SpecF) ----
    issued          \* the requests issued so far, with what came back

runVars == <<targets, raw_refs, references, threads, pcMain, submitted, queue,
             tasks, collected, all_results>>
matchVars == <<content, refline, file_records, ref, outcome, mpc>>
vars == <<runVars, matchVars, issued>>

----------------------------------------------------------------------------
(* Bounds of the model *)

MaxTargets == 2
MaxThreads == 2
MaxFileLines == 2

----------------------------------------------------------------------------
(* Python values *)

\* Python's None, where a string (a sequence of characters) could stand
None == <<"<None>">>

Range(s) == {s[i] : i \in 1..Len(s)}

Lowers == <<"a","b","c","d","e","f","g","h","i","j","k","l","m",
            "n","o","p","q","r","s","t","u","v","w","x","y","z">>
Uppers == <<"A","B","C","D","E","F","G","H","I","J","K","L","M",
            "N","O","P","Q","R","S","T","U","V","W","X","Y","Z">>

LowerCh(c) ==
    IF \E i \in 1..Len(Uppers) : Uppers[i] = c
    THEN Lowers[CHOOSE i \in 1..Len(Uppers) : Uppers[i] = c]
    ELSE c
UpperCh(c) ==
    IF \E i \in 1..Len(Lowers) : Lowers[i] = c
    THEN Uppers[CHOOSE i \in 1..Len(Lowers) : Lowers[i] = c]
    ELSE c

\* str.lower(), str.upper()
Lower(s) == [i \in 1..Len(s) |-> LowerCh(s[i])]
Upper(s) == [i \in 1..Len(s) |-> UpperCh(s[i])]

\* the characters str.strip() removes
Whitespace == {" ", "\t", "\n", "\r"}

\* str.strip()
Strip(s) ==
    LET keep == {i \in 1..Len(s) : s[i] \notin Whitespace}
    IN  IF keep = {} THEN <<>>
        ELSE SubSeq(s, CHOOSE i \in keep : \A j \in keep : i <= j,
                       CHOOSE i \in keep : \A j \in keep : j <= i)

\* str.split(sep) for a one-character separator: n separators, n+1 pieces
RECURSIVE Split(_, _)
Split(s, sep) ==
    LET at == {i \in 1..Len(s) : s[i] = sep}
    IN  IF at = {} THEN <<s>>
        ELSE LET k == CHOOSE i \in at : \A j \in at : i <= j
             IN  <<SubSeq(s, 1, k - 1)>> \o Split(SubSeq(s, k + 1, Len(s)), sep)

\* str.splitlines(): no line for the text after a final line break
SplitLines(s) ==
    LET pieces == Split(s, "\n")
    IN  IF pieces[Len(pieces)] = <<>>
        THEN SubSeq(pieces, 1, Len(pieces) - 1)
        ELSE pieces

\* [p.strip() for p in text.split(',')]
Parts(text) ==
    LET raw == Split(text, ",")
    IN  [i \in 1..Len(raw) |-> Strip(raw[i])]

----------------------------------------------------------------------------
(* parse_ads_file *)

\* line.split('#')[0].strip()
CleanLine(line) == Strip(Split(line, "#")[1])

\* the number of fields a line needs to become a record
MinFileFields == 3

\* the record appended for one line, or no record
LineRecords(line) ==
    LET clean_line == CleanLine(line)
        parts == Parts(clean_line)
    IN  IF clean_line = <<>> THEN <<>>
        ELSE IF Len(parts) >= MinFileFields
             THEN << [domain |-> Lower(parts[1]),
                      id     |-> Lower(parts[2]),
                      type   |-> Upper(parts[3])] >>
             ELSE <<>>

RECURSIVE ParseLines(_)
ParseLines(lines) ==
    IF lines = <<>> THEN <<>>
    ELSE LineRecords(Head(lines)) \o ParseLines(Tail(lines))

parse_ads_file(text) ==
    IF text = None \/ text = <<>> THEN <<>>
    ELSE ParseLines(SplitLines(text))

----------------------------------------------------------------------------
(* parse_reference_line *)

\* what the caller gets for a line with fewer than 2 fields
NoRef == [domain |-> None, id |-> None, type |-> None, original |-> None]

parse_reference_line(line) ==
    LET parts == Parts(line)
    IN  IF Len(parts) < 2 THEN NoRef
        ELSE [domain   |-> Lower(parts[1]),
              id       |-> Lower(parts[2]),
              type     |-> IF Len(parts) > 2 THEN Upper(parts[3]) ELSE None,
              original |-> line]

----------------------------------------------------------------------------
(* validate_domain *)

\* the file chosen by the radio button (its default)
file_type == "ads.txt"

\* report texts are lists of pieces, so that an f-string keeps its values
Text(s) == <<s>>
TypeMismatch(found, expected) ==
    <<"Type mismatch: found ", found, ", expected ", expected>>

\* a fetch result: (content, status_message, error_bool)
FetchResult(c, status, failed) ==
    [content |-> c, status |-> status, failed |-> failed]

\* mutant: only '' counts as "no type", None does not
TruthyNotEmpty(t) == t # <<>>

\* Python truth of ref['type']: None and '' are false
Truthy(t) == t # None /\ t # <<>>

\* mutant: `or` for `and`
SameDomainOrId(record, r) == record.domain = r.domain \/ record.id = r.id

SameDomainId(record, r) == record.domain = r.domain /\ record.id = r.id

\* the test that ends the scan with a full match
TypeEqual(record, r) == record.type = r.type

\* mutant: a break after the type mismatch, so the first pair decides
RECURSIVE ScanFirstWins(_, _, _, _)
ScanFirstWins(records, r, match_status, details) ==
    IF records = <<>> THEN [Result |-> match_status, Details |-> details]
    ELSE LET record == Head(records)
         IN  IF record.domain = r.domain /\ record.id = r.id
             THEN IF r.type = None \/ r.type = <<>>
                  THEN [Result  |-> "Valid",
                        Details |-> <<"Matched by Domain + ID (Type not specified)">>]
                  ELSE IF record.type = r.type
                       THEN [Result |-> "Valid", Details |-> <<"Full match">>]
                       ELSE [Result  |-> "Partially matched",
                             Details |-> <<"Type mismatch: found ", record.type,
                                           ", expected ", r.type>>]
             ELSE ScanFirstWins(Tail(records), r, match_status, details)

\* mutant: no break after the full match, so a later mismatch overrides it
RECURSIVE ScanNoBreak(_, _, _, _)
ScanNoBreak(records, r, match_status, details) ==
    IF records = <<>> THEN [Result |-> match_status, Details |-> details]
    ELSE LET record == Head(records)
         IN  IF record.domain = r.domain /\ record.id = r.id
             THEN IF r.type = None \/ r.type = <<>>
                  THEN [Result  |-> "Valid",
                        Details |-> <<"Matched by Domain + ID (Type not specified)">>]
                  ELSE IF record.type = r.type
                       THEN ScanNoBreak(Tail(records), r, "Valid", <<"Full match">>)
                       ELSE ScanNoBreak(Tail(records), r, "Partially matched",
                                        <<"Type mismatch: found ", record.type,
                                          ", expected ", r.type>>)
             ELSE ScanNoBreak(Tail(records), r, match_status, details)

\* the loop over file_records for one reference, from match_status and details
\* as they stand; a break ends the recursion
RECURSIVE Scan(_, _, _, _)
Scan(records, r, match_status, details) ==
    IF records = <<>> THEN [Result |-> match_status, Details |-> details]
    ELSE LET record == Head(records)
         IN  IF SameDomainId(record, r)
             THEN IF ~Truthy(r.type)
                  THEN [Result  |-> "Valid",
                        Details |-> Text("Matched by Domain + ID (Type not specified)")]
                  ELSE IF TypeEqual(record, r)
                       THEN [Result |-> "Valid", Details |-> Text("Full match")]
                       ELSE Scan(Tail(records), r, "Partially matched",
                                 TypeMismatch(record.type, r.type))
             ELSE Scan(Tail(records), r, match_status, details)

MatchRef(records, r) ==
    Scan(records, r, "Not found", Text("No matching Domain+ID pair found"))

Row(url, result, details, reference) ==
    [URL |-> url, File |-> file_type, Result |-> result,
     Details |-> details, Reference |-> reference]

\* mutant: the return sits inside the loop, after the first reference
ErrorRowsOnce(target_domain, refs, status_msg) ==
    [j \in 1..(IF refs = <<>> THEN 0 ELSE 1) |->
        [URL |-> target_domain, File |-> "ads.txt", Result |-> "Error",
         Details |-> <<status_msg>>, Reference |-> refs[j].original]]

\* the rows returned when the file could not be fetched
ErrorRows(target_domain, refs, status_msg) ==
    [j \in 1..Len(refs) |->
        Row(target_domain, "Error", Text(status_msg), refs[j].original)]

\* the rows returned for a fetched file
MatchRows(target_domain, refs, records) ==
    [j \in 1..Len(refs) |->
        LET m == MatchRef(records, refs[j])
        IN  Row(target_domain, m.Result, m.Details, refs[j].original)]

\* mutant: no return after the Error rows, the matching runs as well
validate_domain_NoReturn(target_domain, refs, fetched) ==
    (IF fetched.failed
     THEN ErrorRows(target_domain, refs, fetched.status)
     ELSE <<>>)
    \o MatchRows(target_domain, refs, parse_ads_file(fetched.content))

\* mutant: `if is_error or not content`, an empty file counts as a failure
validate_domain_EmptyIsError(target_domain, refs, fetched) ==
    IF fetched.failed \/ fetched.content = <<>>
    THEN ErrorRows(target_domain, refs, fetched.status)
    ELSE MatchRows(target_domain, refs, parse_ads_file(fetched.content))

\* validate_domain after its call of fetch_file_content returned fetched
validate_domain(target_domain, refs, fetched) ==
    IF fetched.failed
    THEN ErrorRows(target_domain, refs, fetched.status)
    ELSE MatchRows(target_domain, refs, parse_ads_file(fetched.content))

----------------------------------------------------------------------------
(* Inputs of SpecM: file lines, file contents and reference lines *)

g_co == <<"g", ".", "c", "o">>
G_CO == <<"G", ".", "C", "O">>
x_co == <<"x", ".", "c", "o">>
p1 == <<"p", "1">>
P1 == <<"P", "1">>
q1 == <<"q", "1">>
DIRECT == <<"D", "I", "R", "E", "C", "T">>
direct == <<"d", "i", "r", "e", "c", "t">>
RESELLER == <<"R", "E", "S", "E", "L", "L", "E", "R">>
Comma == <<",">>
CommaSp == <<",", " ">>
Comment == <<" ", "#", " ", "o", "k">>

FileLines ==
    { g_co \o CommaSp \o p1 \o CommaSp \o DIRECT,
      g_co \o Comma \o p1 \o Comma \o RESELLER,
      G_CO \o CommaSp \o P1 \o CommaSp \o direct \o Comment,
      g_co \o CommaSp \o p1,
      g_co \o Comma \o p1 \o Comma,
      g_co \o Comma \o q1 \o Comma \o DIRECT,
      x_co \o Comma \o p1 \o Comma \o DIRECT,
      <<"#">> \o g_co \o Comma \o p1 \o Comma \o DIRECT,
      g_co }

RefLines ==
    { g_co \o CommaSp \o p1 \o CommaSp \o DIRECT,
      g_co \o Comma \o p1 \o Comma \o RESELLER,
      G_CO \o CommaSp \o P1 \o CommaSp \o direct,
      g_co \o Comma \o p1,
      g_co \o Comma \o p1 \o Comma,
      g_co \o Comma \o p1 \o Comma \o DIRECT \o Comment,
      g_co \o Comma \o p1 \o Comment,
      x_co \o Comma \o q1 \o Comma \o DIRECT,
      g_co }

\* lines joined by line breaks
RECURSIVE Join(_)
Join(lines) ==
    IF lines = <<>> THEN <<>>
    ELSE IF Len(lines) = 1 THEN lines[1]
    ELSE Head(lines) \o <<"\n">> \o Join(Tail(lines))

SeqsUpTo(S, n) == UNION {[1..k -> S] : k \in 0..n}

\* the byte-order mark as response.text holds it: one character, U+FEFF
BOM == "<U+FEFF>"

\* file texts of up to MaxFileLines lines, with and without a leading mark
FileContents ==
    LET plain == {Join(ls) : ls \in SeqsUpTo(FileLines, MaxFileLines)}
    IN  plain \cup {<<BOM>> \o c : c \in plain}

----------------------------------------------------------------------------
(* SpecM: one file content, one reference line *)

\* the run's variables are idle in SpecM
RunIdle ==
    /\ targets = <<>>
    /\ raw_refs = <<>>
    /\ references = <<>>
    /\ threads = 1
    /\ pcMain = "idle"
    /\ submitted = 0
    /\ queue = <<>>
    /\ tasks = <<>>
    /\ collected = <<>>
    /\ all_results = <<>>

InitM ==
    /\ RunIdle
    /\ issued = <<>>
    /\ content \in FileContents
    /\ refline \in RefLines
    /\ file_records = <<>>
    /\ ref = NoRef
    /\ outcome = Row("", "", <<>>, <<>>)
    /\ mpc = "start"

\* app.py:228-233: the reference line is parsed; an invalid one is skipped
ParseReference ==
    /\ mpc = "start"
    /\ LET parsed == parse_reference_line(refline)
       IN  /\ ref' = parsed
           /\ mpc' = IF parsed = NoRef THEN "skipped" ELSE "ready"
    /\ UNCHANGED <<content, refline, file_records, outcome, runVars, issued>>

\* app.py:126-172: the fetched file is parsed and the reference matched
Validate ==
    /\ mpc = "ready"
    /\ file_records' = parse_ads_file(content)
    /\ outcome' = validate_domain("t", <<ref>>, FetchResult(content, "OK", FALSE))[1]
    /\ mpc' = "done"
    /\ UNCHANGED <<content, refline, ref, runVars, issued>>

NextM == ParseReference \/ Validate

SpecM == InitM /\ [][NextM]_vars

----------------------------------------------------------------------------
(* fetch_file_content: the candidate URLs and what one request leads to *)

\* urls = [https://{domain}/{filename}, http://{domain}/{filename}]
Urls == <<"https", "http">>

\* what session.get does: a response with a status code (200, 403, or any
\* other, stood for by 404), an SSLError, or any other exception
Statuses == {"200", "403", "404"}
Raises == {"SSLError", "Exception"}

\* mutant: an empty text instead of None
UnreachableEmptyText == FetchResult(<<>>, "File unreachable or 404", TRUE)

Unreachable == FetchResult(None, "File unreachable or 404", TRUE)

\* a task that has not reached a worker yet
NewTask == [st |-> "new", u |-> 0, fetch |-> FetchResult(None, "", FALSE),
            res |-> <<>>, exc |-> ""]

\* validate_domain from the return of fetch_file_content to its own return
Returned(t, target_domain, refs, fetched) ==
    [t EXCEPT !.st = "returned", !.u = 0, !.fetch = fetched,
              !.res = validate_domain(target_domain, refs, fetched)]

\* `continue`, or the end of the loop body: the next URL, or the final return
NextUrl(t, target_domain, refs) ==
    IF t.u < Len(Urls)
    THEN [t EXCEPT !.st = "get", !.u = t.u + 1]
    ELSE Returned(t, target_domain, refs, Unreachable)

\* mutant: a 403 ends the fetch, the HTTP URL is not tried
AfterGet403Final(t, target_domain, refs, kind, text) ==
    IF kind = "200" THEN Returned(t, target_domain, refs, FetchResult(text, "OK", FALSE))
    ELSE IF kind = "SSLError" THEN [t EXCEPT !.st = "retry"]
    ELSE IF kind = "403" THEN Returned(t, target_domain, refs, Unreachable)
    ELSE NextUrl(t, target_domain, refs)

\* mutant: every exception, not only SSLError, leads to the unverified request
AfterGetRetryAnyError(t, target_domain, refs, kind, text) ==
    IF kind = "200" THEN Returned(t, target_domain, refs, FetchResult(text, "OK", FALSE))
    ELSE IF kind \in Raises THEN [t EXCEPT !.st = "retry"]
    ELSE NextUrl(t, target_domain, refs)

\* session.get(url, timeout=10, allow_redirects=True) and what follows it
AfterGet(t, target_domain, refs, kind, text) ==
    IF kind = "200" THEN Returned(t, target_domain, refs, FetchResult(text, "OK", FALSE))
    ELSE IF kind = "SSLError" THEN [t EXCEPT !.st = "retry"]
    ELSE NextUrl(t, target_domain, refs)

\* mutant: a failed unverified request is followed by the validated one again
AfterRetryAgain(t, target_domain, refs, kind, text) ==
    IF kind = "200"
    THEN Returned(t, target_domain, refs, FetchResult(text, "OK (SSL warning)", FALSE))
    ELSE [t EXCEPT !.st = "get"]

\* session.get(url, ..., verify=False) in the SSLError handler
AfterRetry(t, target_domain, refs, kind, text) ==
    IF kind = "200"
    THEN Returned(t, target_domain, refs, FetchResult(text, "OK (SSL warning)", FALSE))
    ELSE NextUrl(t, target_domain, refs)

----------------------------------------------------------------------------
(* Inputs of Spec *)

Hosts == {"a.com", "b.com"}

\* what the text area of reference lines may hold, line by line
RefTyped == g_co \o Comma \o p1 \o Comma \o DIRECT
RefUntyped == g_co \o Comma \o p1
RefOther == x_co \o Comma \o q1 \o Comma \o RESELLER
RefInvalid == g_co
RefInputs ==
    { <<RefTyped>>,
      <<RefTyped, RefUntyped>>,
      <<RefUntyped, RefInvalid, RefOther>>,
      <<RefInvalid>> }

\* what a host may serve
ServedContents ==
    { g_co \o Comma \o p1 \o Comma \o RESELLER, <<>> }

\* str(e) of an exception raised inside a task
Faults == {"fault"}

----------------------------------------------------------------------------
(* Spec: the run started by the button *)

\* the parser and matcher variables are idle in Spec
MatchIdle ==
    /\ content = <<>>
    /\ refline = <<>>
    /\ file_records = <<>>
    /\ ref = NoRef
    /\ outcome = Row("", "", <<>>, <<>>)
    /\ mpc = "idle"

Init ==
    /\ MatchIdle
    /\ issued = <<>>
    /\ targets \in SeqsUpTo(Hosts, MaxTargets)
    /\ raw_refs \in RefInputs
    /\ threads \in 1..MaxThreads
    /\ references = <<>>
    /\ pcMain = "start"
    /\ submitted = 0
    /\ queue = <<>>
    /\ tasks = [i \in 1..Len(targets) |-> NewTask]
    /\ collected = <<>>
    /\ all_results = <<>>

\* the references accepted from the lines, in their order
RECURSIVE Accepted(_)
Accepted(lines) ==
    IF lines = <<>> THEN <<>>
    ELSE LET parsed == parse_reference_line(Head(lines))
         IN  (IF parsed = NoRef THEN <<>> ELSE <<parsed>>) \o Accepted(Tail(lines))

Running == {i \in 1..Len(tasks) : tasks[i].st \in {"get", "retry"}}
Finished == {i \in 1..Len(tasks) : tasks[i].st \in {"returned", "raised"}}

\* app.py:226-236: the reference lines are parsed; st.stop() without references
Prepare ==
    /\ pcMain = "start"
    /\ LET accepted == Accepted(raw_refs)
       IN  /\ references' = accepted
           /\ pcMain' = IF accepted = <<>> THEN "stopped" ELSE "run"
    /\ UNCHANGED <<targets, raw_refs, threads, submitted, queue, tasks,
                   collected, all_results, matchVars, issued>>

\* app.py:246-249: executor.submit for the next target
Submit ==
    /\ pcMain = "run"
    /\ submitted < Len(targets)
    /\ submitted' = submitted + 1
    /\ queue' = Append(queue, submitted + 1)
    /\ tasks' = [tasks EXCEPT ![submitted + 1].st = "queued"]
    /\ UNCHANGED <<targets, raw_refs, references, threads, pcMain,
                   collected, all_results, matchVars, issued>>

\* mutant: a thread per submitted task, whatever max_workers says
WorkerAlwaysFree == TRUE

\* ThreadPoolExecutor(max_workers=threads): a worker is free
WorkerFree == Cardinality(Running) < threads

\* a free worker takes the oldest queued task, which enters fetch_file_content
StartTask ==
    /\ queue # <<>>
    /\ WorkerFree
    /\ tasks' = [tasks EXCEPT ![Head(queue)] = [@ EXCEPT !.st = "get", !.u = 1]]
    /\ queue' = Tail(queue)
    /\ UNCHANGED <<targets, raw_refs, references, threads, pcMain, submitted,
                   collected, all_results, matchVars, issued>>

\* app.py:45-51, 60-61: the request with certificate validation
Get(i) ==
    /\ tasks[i].st = "get"
    /\ \E kind \in Statuses \cup Raises, text \in ServedContents :
          tasks' = [tasks EXCEPT ![i] =
                       AfterGet(@, targets[i], references, kind, text)]
    /\ UNCHANGED <<targets, raw_refs, references, threads, pcMain, submitted,
                   queue, collected, all_results, matchVars, issued>>

\* app.py:53-59: the request without certificate validation
Retry(i) ==
    /\ tasks[i].st = "retry"
    /\ \E kind \in Statuses \cup Raises, text \in ServedContents :
          tasks' = [tasks EXCEPT ![i] =
                       AfterRetry(@, targets[i], references, kind, text)]
    /\ UNCHANGED <<targets, raw_refs, references, threads, pcMain, submitted,
                   queue, collected, all_results, matchVars, issued>>

\* an exception leaves validate_domain: the future holds it
TaskFault(i) ==
    /\ tasks[i].st \in {"get", "retry"}
    /\ \E e \in Faults :
          tasks' = [tasks EXCEPT ![i] = [@ EXCEPT !.st = "raised", !.u = 0, !.exc = e]]
    /\ UNCHANGED <<targets, raw_refs, references, threads, pcMain, submitted,
                   queue, collected, all_results, matchVars, issued>>

\* mutant: future.result() outside any try, the exception leaves the loop
AfterResultNoCatch(i) ==
    IF tasks[i].st = "raised"
    THEN [pc |-> "aborted", rows |-> all_results]
    ELSE [pc |-> "run", rows |-> all_results \o tasks[i].res]

\* mutant: the rows of a task are put in front of the rows collected so far
AfterResultPrepend(i) ==
    IF tasks[i].st = "raised"
    THEN [pc |-> "run",
          rows |-> Append(all_results,
                          [URL |-> targets[i], File |-> "ads.txt",
                           Result |-> "System Error", Details |-> <<tasks[i].exc>>,
                           Reference |-> <<"-">>])]
    ELSE [pc |-> "run", rows |-> tasks[i].res \o all_results]

\* app.py:253-262: the body of the as_completed loop for future i:
\* the position of the main thread and the rows after it
AfterResult(i) ==
    IF tasks[i].st = "raised"
    THEN [pc |-> "run",
          rows |-> Append(all_results,
                          Row(targets[i], "System Error", Text(tasks[i].exc), <<"-">>))]
    ELSE [pc |-> "run", rows |-> all_results \o tasks[i].res]

\* app.py:251-267: as_completed yields a finished future not yet yielded
Collect(i) ==
    /\ pcMain = "run"
    /\ submitted = Len(targets)
    /\ i \in Finished
    /\ i \notin Range(collected)
    /\ collected' = Append(collected, i)
    /\ pcMain' = AfterResult(i).pc
    /\ all_results' = AfterResult(i).rows
    /\ UNCHANGED <<targets, raw_refs, references, threads, submitted, queue,
                   tasks, matchVars, issued>>

\* mutant: the loop is left after the first completed future
FinishAfterFirst ==
    /\ pcMain = "run"
    /\ submitted = Len(targets)
    /\ (Len(collected) >= 1 \/ Len(targets) = 0)
    /\ pcMain' = "done"
    /\ UNCHANGED <<targets, raw_refs, references, threads, submitted, queue,
                   tasks, collected, all_results, matchVars, issued>>

\* app.py:251, 269: as_completed is exhausted and the executor shut down
Finish ==
    /\ pcMain = "run"
    /\ submitted = Len(targets)
    /\ Len(collected) = Len(targets)
    /\ pcMain' = "done"
    /\ UNCHANGED <<targets, raw_refs, references, threads, submitted, queue,
                   tasks, collected, all_results, matchVars, issued>>

Next ==
    \/ Prepare
    \/ Submit
    \/ StartTask
    \/ \E i \in 1..Len(tasks) : Get(i)
    \/ \E i \in 1..Len(tasks) : Retry(i)
    \/ \E i \in 1..Len(tasks) : TaskFault(i)
    \/ \E i \in 1..Len(tasks) : Collect(i)
    \/ Finish

Spec == Init /\ [][Next]_vars

\* i + 1 of the as_completed loop: "Processed {i + 1}/{len(targets)} sites"
processed == Len(collected)

\* the main thread runs on once the run has started (app.py:238-270)
MainStep == Submit \/ (\E i \in 1..Len(tasks) : Collect(i)) \/ Finish
\* the request of task i comes back (timeout=10)
RequestStep(i) == i \in 1..Len(tasks) /\ (Get(i) \/ Retry(i))

\* Spec with its scheduling: the main thread and the workers keep running
\* and every request returns or times out
SpecLive ==
    /\ Spec
    /\ WF_vars(MainStep)
    /\ WF_vars(StartTask)
    /\ \A i \in 1..MaxTargets : WF_vars(RequestStep(i))

----------------------------------------------------------------------------
(* SpecF: one call of fetch_file_content, inside one validate_domain task, *)
(* with the requests it issues kept in `issued`                            *)

\* what session.get may come back with: a response (status code, body and
\* whether its Content-Type is an HTML type) or an exception
Responses ==
    [kind : Statuses, text : ServedContents, html : BOOLEAN]
    \cup [kind : Raises, text : {<<>>}, html : {FALSE}]

\* a request as issued: the URL (by its scheme), verify, and the response
Issued(t, verify, resp) ==
    [url |-> Urls[t.u], verify |-> verify, kind |-> resp.kind, html |-> resp.html]

\* the task has just entered fetch_file_content (as after StartTask)
InitF ==
    /\ MatchIdle
    /\ targets \in {<<h>> : h \in Hosts}
    /\ raw_refs \in {r \in RefInputs : Accepted(r) # <<>>}
    /\ references = Accepted(raw_refs)
    /\ threads = 1
    /\ pcMain = "run"
    /\ submitted = 1
    /\ queue = <<>>
    /\ tasks = << [NewTask EXCEPT !.st = "get", !.u = 1] >>
    /\ collected = <<>>
    /\ all_results = <<>>
    /\ issued = <<>>

\* app.py:45-51, 60-61: the request with certificate validation
FGet ==
    /\ tasks[1].st = "get"
    /\ \E resp \in Responses :
          /\ tasks' = [tasks EXCEPT ![1] =
                          AfterGet(@, targets[1], references, resp.kind, resp.text)]
          /\ issued' = Append(issued, Issued(tasks[1], TRUE, resp))
    /\ UNCHANGED <<targets, raw_refs, references, threads, pcMain, submitted,
                   queue, collected, all_results, matchVars>>

\* app.py:53-59: the request without certificate validation
FRetry ==
    /\ tasks[1].st = "retry"
    /\ \E resp \in Responses :
          /\ tasks' = [tasks EXCEPT ![1] =
                          AfterRetry(@, targets[1], references, resp.kind, resp.text)]
          /\ issued' = Append(issued, Issued(tasks[1], FALSE, resp))
    /\ UNCHANGED <<targets, raw_refs, references, threads, pcMain, submitted,
                   queue, collected, all_results, matchVars>>

NextF == FGet \/ FRetry

\* timeout=10 on every request: a request in progress comes back
SpecF == InitF /\ [][NextF]_vars /\ WF_vars(NextF)

----------------------------------------------------------------------------
(* Notions the properties of the matcher are stated with *)

\* the positions of the records that equal the reference in domain and id
DomIdAt == {i \in 1..Len(file_records) :
               /\ file_records[i].domain = ref.domain
               /\ file_records[i].id = ref.id}
\* the positions of the records that equal it in domain, id and type
FullAt == {i \in DomIdAt : file_records[i].type = ref.type}
FirstOf(S) == CHOOSE i \in S : \A j \in S : i <= j
LastOf(S) == CHOOSE i \in S : \A j \in S : j <= i
RefHasType == ref.type # None /\ ref.type # <<>>

\* the data lines of the file as the grammar reads them: comment stripped,
\* not empty, split into trimmed fields
DataFields ==
    LET lines == IF content = <<>> THEN <<>> ELSE SplitLines(content)
        at == {i \in 1..Len(lines) : CleanLine(lines[i]) # <<>>}
    IN  [i \in at |-> Parts(CleanLine(lines[i]))]
\* the data lines that name the reference's domain and id
LinesOfRef ==
    {i \in DOMAIN DataFields :
        /\ Len(DataFields[i]) >= 2
        /\ Lower(DataFields[i][1]) = ref.domain
        /\ Lower(DataFields[i][2]) = ref.id}
TypeAbsentIn(fields) == Len(fields) < 3 \/ fields[3] = <<>>

----------------------------------------------------------------------------
(* C2 *)

\* C2 as stated: for a reference with a type, the first record equal in
\* domain and id decides: when its type differs the result is 'Partially
\* matched' naming that record's type, whatever follows it in the file.
C2_FirstMatchDecides ==
    (mpc = "done" /\ RefHasType /\ DomIdAt # {}
       /\ file_records[FirstOf(DomIdAt)].type # ref.type)
    => /\ outcome.Result = "Partially matched"
       /\ outcome.Details =
             TypeMismatch(file_records[FirstOf(DomIdAt)].type, ref.type)

\* C2 amended: when the first record equal in domain and id differs in type,
\* the scan goes on: the result is 'Valid' / 'Full match' if a later record
\* equals the reference in domain, id and type, and otherwise 'Partially
\* matched' naming the type of the last record equal in domain and id.
C2_ScanContinues ==
    (mpc = "done" /\ RefHasType /\ DomIdAt # {}
       /\ file_records[FirstOf(DomIdAt)].type # ref.type)
    => IF FullAt # {}
       THEN /\ outcome.Result = "Valid"
            /\ outcome.Details = Text("Full match")
       ELSE /\ outcome.Result = "Partially matched"
            /\ outcome.Details =
                  TypeMismatch(file_records[LastOf(DomIdAt)].type, ref.type)

\* a mismatching first record followed by a duplicate of the expected type
C2_Witness ==
    /\ mpc = "done"
    /\ RefHasType
    /\ DomIdAt # {}
    /\ file_records[FirstOf(DomIdAt)].type # ref.type
    /\ FullAt # {}
    /\ outcome.Result = "Valid"

----------------------------------------------------------------------------
(* C6 *)

\* C6 as stated: for a reference with a type, when the first line of the file
\* naming its domain and id has no type, the result is 'Valid' with details
\* 'Matched (type missing in file)'.
C6_TypeMissingIsValid ==
    (mpc = "done" /\ RefHasType /\ LinesOfRef # {}
       /\ TypeAbsentIn(DataFields[FirstOf(LinesOfRef)]))
    => /\ outcome.Result = "Valid"
       /\ outcome.Details = Text("Matched (type missing in file)")

----------------------------------------------------------------------------
(* C7 *)

\* C7 as stated: the parser emits one record for every data line with at
\* least 2 fields, so a line holding exactly 'domain, id' yields a record.
C7_TwoFieldsEmitRecord ==
    mpc = "done"
    => Len(file_records) =
          Cardinality({i \in DOMAIN DataFields : Len(DataFields[i]) >= 2})

----------------------------------------------------------------------------
(* C8 *)

\* C8: for a reference without a type, the result is 'Valid' with details
\* 'Matched by Domain + ID (Type not specified)' whenever some record of the
\* file equals the reference in domain and id.
C8_UntypedRefValid ==
    (mpc = "done" /\ ref.type = None /\ DomIdAt # {})
    => /\ outcome.Result = "Valid"
       /\ outcome.Details = Text("Matched by Domain + ID (Type not specified)")

\* an untyped reference matched by a record that is not the first of the file
C8_Witness ==
    /\ mpc = "done"
    /\ ref.type = None
    /\ DomIdAt # {}
    /\ 1 \notin DomIdAt
    /\ outcome.Result = "Valid"

----------------------------------------------------------------------------
(* C9 *)

\* C9: the result is 'Not found' with details 'No matching Domain+ID pair
\* found' exactly when no parsed record equals the reference in both domain
\* and id.
C9_NotFoundIffNoPair ==
    mpc = "done"
    => ((/\ outcome.Result = "Not found"
         /\ outcome.Details = Text("No matching Domain+ID pair found"))
        <=> DomIdAt = {})

\* 'Not found' although one record has the domain and another has the id
C9_Witness ==
    /\ mpc = "done"
    /\ outcome.Result = "Not found"
    /\ \E i \in 1..Len(file_records) :
          file_records[i].domain = ref.domain /\ file_records[i].id # ref.id
    /\ \E i \in 1..Len(file_records) :
          file_records[i].domain # ref.domain /\ file_records[i].id = ref.id

----------------------------------------------------------------------------
(* C10 *)

\* the reference line without its comment suffix
Uncommented == Strip(Split(refline, "#")[1])

\* C10 as stated: a reference line with a comment suffix yields the domain,
\* id and type of the line without it, and the same result.
C10_CommentStripped ==
    (mpc \in {"ready", "done"} /\ "#" \in Range(refline))
    => LET plain == parse_reference_line(Uncommented)
       IN  /\ ref.domain = plain.domain
           /\ ref.id = plain.id
           /\ ref.type = plain.type
           /\ mpc = "done" =>
                 outcome.Result = MatchRef(file_records, plain).Result

----------------------------------------------------------------------------
(* Notions the properties of the run are stated with *)

Faulted == {i \in 1..Len(tasks) : tasks[i].st = "raised"}
Completed == {i \in 1..Len(tasks) : tasks[i].st = "returned"}
InFlight == {i \in 1..Len(tasks) : tasks[i].st \in {"get", "retry"}}
RowsAt(u, o) == {k \in 1..Len(all_results) :
                    all_results[k].URL = u /\ all_results[k].Reference = o}
SystemErrorsAt(u) == {k \in 1..Len(all_results) :
                         /\ all_results[k].URL = u
                         /\ all_results[k].Result = "System Error"}
\* how often the reference at position j is listed
TimesListed(j) == Cardinality({j2 \in 1..Len(references) :
                                  references[j2].original = references[j].original})

----------------------------------------------------------------------------
(* C1 *)

\* C1 as stated: the final result holds exactly one Outcome per (target,
\* reference) pair, so count(outcomes) = len(targets) * len(references), in
\* every run.
C1_OnePerPair ==
    pcMain = "done"
    => /\ Len(all_results) = Len(targets) * Len(references)
       /\ \A u \in Hosts, j \in 1..Len(references) :
             Cardinality(RowsAt(u, references[j].original)) =
                Cardinality({i \in 1..Len(targets) : targets[i] = u}) * TimesListed(j)

\* C1 amended: the final result holds exactly one Outcome per (target,
\* reference) pair for every target whose task did not raise, failed fetches
\* included, and exactly one 'System Error' Outcome for every target whose
\* task raised: count(outcomes) = len(references) * (targets that did not
\* raise) + (targets that raised).
C1_OnePerPairUnlessRaised ==
    pcMain = "done"
    => /\ Len(all_results) =
             Len(references) * Cardinality(Completed) + Cardinality(Faulted)
       /\ \A u \in Hosts, j \in 1..Len(references) :
             Cardinality(RowsAt(u, references[j].original)) =
                Cardinality({i \in Completed : targets[i] = u}) * TimesListed(j)
       /\ \A u \in Hosts :
             Cardinality(SystemErrorsAt(u)) =
                Cardinality({i \in Faulted : targets[i] = u})

\* a finished run over a duplicated target and two references, one fetch
\* failed and one succeeded
C1_Witness ==
    /\ pcMain = "done"
    /\ Len(targets) = 2
    /\ targets[1] = targets[2]
    /\ Len(references) = 2
    /\ Faulted = {}
    /\ \E i \in Completed : tasks[i].fetch.failed
    /\ \E i \in Completed : ~tasks[i].fetch.failed
    /\ Len(all_results) = 4

----------------------------------------------------------------------------
(* C3 *)

\* C3: a task whose fetch reported failed=true returns exactly one row per
\* reference, in reference order, each with result 'Error', details equal to
\* the fetcher's status string and Reference equal to the reference's line.
C3_FetchFailureRows ==
    \A i \in 1..Len(tasks) :
       (tasks[i].st = "returned" /\ tasks[i].fetch.failed)
       => /\ Len(tasks[i].res) = Len(references)
          /\ \A j \in 1..Len(tasks[i].res) :
                /\ tasks[i].res[j].URL = targets[i]
                /\ tasks[i].res[j].Result = "Error"
                /\ tasks[i].res[j].Details = <<tasks[i].fetch.status>>
                /\ tasks[i].res[j].Reference = references[j].original

\* a task returned after a failed fetch, with two different references
C3_Witness ==
    \E i \in 1..Len(tasks) :
       /\ tasks[i].st = "returned"
       /\ tasks[i].fetch.failed
       /\ Len(references) = 2
       /\ references[1].original # references[2].original
       /\ Len(tasks[i].res) = 2

----------------------------------------------------------------------------
(* C4 *)

\* the rows of the returned tasks that equal row x, and the rows of the
\* final result that do
ReturnedCopies(x) == {p \in Completed \X (1..Len(references)) :
                         tasks[p[1]].res[p[2]] = x}
ResultCopies(x) == {k \in 1..Len(all_results) : all_results[k] = x}

\* C4: a task that raised never aborts the loop; in the final result every
\* target whose task raised has exactly one 'System Error' row (details the
\* fault description), and every row of every other task is present.
C4_FaultIsolated ==
    /\ pcMain # "aborted"
    /\ pcMain = "done"
       => /\ \A u \in Hosts :
                Cardinality(SystemErrorsAt(u)) =
                   Cardinality({i \in Faulted : targets[i] = u})
          /\ \A k \in 1..Len(all_results) :
                all_results[k].Result = "System Error"
                => /\ \E i \in Faulted :
                         /\ all_results[k].URL = targets[i]
                         /\ all_results[k].Details = <<tasks[i].exc>>
                   /\ all_results[k].Reference = <<"-">>
          /\ \A i \in Completed : \A j \in 1..Len(tasks[i].res) :
                Cardinality(ResultCopies(tasks[i].res[j])) =
                   Cardinality(ReturnedCopies(tasks[i].res[j]))

\* a finished run in which a raised task was collected first and the rows of
\* another target follow its 'System Error' row
C4_Witness ==
    /\ pcMain = "done"
    /\ Len(collected) = 2
    /\ collected[1] \in Faulted
    /\ collected[2] \in Completed
    /\ all_results[1].Result = "System Error"
    /\ Len(all_results) = 1 + Len(references)

----------------------------------------------------------------------------
(* C5 *)

\* C5: never more than `threads` tasks are inside validate_domain at once.
C5_AtMostThreadsInFlight == Cardinality(InFlight) <= threads

\* more targets than threads: every worker busy and a task waiting
C5_Witness ==
    /\ Len(targets) > threads
    /\ Cardinality(InFlight) = threads
    /\ queue # <<>>

----------------------------------------------------------------------------
(* C11 *)

\* C11: for a reference with a type, a type mismatch does not stop the scan:
\* the result is 'Valid' / 'Full match' whenever some record of the file, at
\* any position, equals the reference in domain, id and type, and it is
\* 'Partially matched' exactly when records equal it in domain and id but
\* none in type as well.
C11_FullMatchAnywhere ==
    (mpc = "done" /\ RefHasType)
    => /\ FullAt # {} => /\ outcome.Result = "Valid"
                         /\ outcome.Details = Text("Full match")
       /\ outcome.Result = "Partially matched" <=> (DomIdAt # {} /\ FullAt = {})

\* the second record is the full match, after a record of another type
C11_Witness ==
    /\ mpc = "done"
    /\ RefHasType
    /\ DomIdAt = {1, 2}
    /\ FullAt = {2}
    /\ outcome.Details = Text("Full match")

----------------------------------------------------------------------------
(* C19 *)

\* C19 as stated: a leading byte-order mark is stripped, so a file parses to
\* the same records, and a reference gets the same result, with and without
\* the mark.
C19_BomStripped ==
    (mpc = "done" /\ content # <<>> /\ Head(content) = BOM)
    => /\ file_records = parse_ads_file(Tail(content))
       /\ outcome.Result = MatchRef(parse_ads_file(Tail(content)), ref).Result

----------------------------------------------------------------------------
(* Notions the properties of the fetcher are stated with *)

FetchReturned == tasks # <<>> /\ tasks[1].st = "returned"
Succeeded(k) == issued[k].kind = "200"
\* every candidate was tried and none succeeded
Exhausted ==
    /\ FetchReturned
    /\ issued # <<>>
    /\ \A k \in 1..Len(issued) : ~Succeeded(k)
RequestsTo(url, verify) ==
    {k \in 1..Len(issued) : issued[k].url = url /\ issued[k].verify = verify}

----------------------------------------------------------------------------
(* C12 *)

\* C12: the first request goes to the https URL; the http URL is requested
\* if and only if no request to the https URL succeeded; and no request is
\* issued after one that succeeded.
C12_HttpsThenHttp ==
    /\ issued # <<>> => issued[1].url = "https"
    /\ \A k \in 1..Len(issued) - 1 :
          /\ ~Succeeded(k)
          /\ issued[k].url = "http" => issued[k + 1].url = "http"
    /\ FetchReturned
       => ((\E k \in 1..Len(issued) : issued[k].url = "http")
           <=> ~ \E k \in 1..Len(issued) : issued[k].url = "https" /\ Succeeded(k))

\* the https URL answered 403 and the http URL was fetched
C12_Witness ==
    /\ FetchReturned
    /\ Len(issued) = 2
    /\ issued[1].url = "https" /\ issued[1].kind = "403"
    /\ issued[2].url = "http" /\ Succeeded(2)
    /\ ~tasks[1].fetch.failed

----------------------------------------------------------------------------
(* C13 *)

\* C13: a request without certificate validation directly follows a
\* validated request to the same URL that raised SSLError, and only that; a
\* URL gets at most one; an SSLError is always followed by it; and when it
\* fails the next request is the validated one to the next URL.
C13_UnverifiedOnlyAfterSslError ==
    /\ \A k \in 1..Len(issued) :
          ~issued[k].verify
          => /\ k > 1
             /\ issued[k - 1].verify
             /\ issued[k - 1].kind = "SSLError"
             /\ issued[k - 1].url = issued[k].url
    /\ \A url \in Range(Urls) : Cardinality(RequestsTo(url, FALSE)) <= 1
    /\ \A k \in 1..Len(issued) :
          (issued[k].verify /\ issued[k].kind = "SSLError")
          => IF k < Len(issued)
             THEN ~issued[k + 1].verify /\ issued[k + 1].url = issued[k].url
             ELSE tasks[1].st = "retry"
    /\ \A k \in 1..Len(issued) - 1 :
          (~issued[k].verify /\ ~Succeeded(k))
          => /\ issued[k + 1].verify
             /\ issued[k].url = "https"
             /\ issued[k + 1].url = "http"

\* the unverified retry of the https URL failed and the http URL was requested
C13_Witness ==
    /\ Len(issued) = 3
    /\ issued[1].kind = "SSLError"
    /\ ~issued[2].verify /\ issued[2].url = "https" /\ issued[2].kind = "Exception"
    /\ issued[3].verify /\ issued[3].url = "http"

----------------------------------------------------------------------------
(* C14 *)

\* C14 as stated: the fetcher reports success only for a 200 response whose
\* content-type is not an HTML type.
C14_HtmlNeverSuccess ==
    (FetchReturned /\ ~tasks[1].fetch.failed)
    => /\ Succeeded(Len(issued))
       /\ ~issued[Len(issued)].html

----------------------------------------------------------------------------
(* C15 *)

\* failed is true exactly when content is None
FailedIffNoContent ==
    FetchReturned => (tasks[1].fetch.failed <=> tasks[1].fetch.content = None)

\* C15 as stated: with every candidate tried without success the fetcher
\* returns (None, "File not accessible", True); failed is true exactly when
\* content is None; the Error rows carry 'File not accessible'.
C15_FileNotAccessible ==
    /\ FailedIffNoContent
    /\ Exhausted
       => /\ tasks[1].fetch = FetchResult(None, "File not accessible", TRUE)
          /\ \A j \in 1..Len(tasks[1].res) :
                tasks[1].res[j].Details = <<"File not accessible">>

\* C15 amended: with every candidate tried without success the fetcher
\* returns (None, "File unreachable or 404", True); failed is true exactly
\* when content is None; the Error rows carry 'File unreachable or 404'.
C15_FileUnreachable ==
    /\ FailedIffNoContent
    /\ tasks # <<>> /\ tasks[1].st = "returned" /\ tasks[1].fetch.failed
       => Exhausted
    /\ Exhausted
       => /\ tasks[1].fetch = FetchResult(None, "File unreachable or 404", TRUE)
          /\ Len(tasks[1].res) = Len(references)
          /\ \A j \in 1..Len(tasks[1].res) :
                /\ tasks[1].res[j].Result = "Error"
                /\ tasks[1].res[j].Details = <<"File unreachable or 404">>

\* both URLs tried, the second after an SSLError and a failed retry
C15_Witness ==
    /\ Exhausted
    /\ Len(issued) = 3
    /\ issued[1].kind = "404"
    /\ issued[2].kind = "SSLError"
    /\ issued[3].kind = "403"
    /\ tasks[1].fetch.failed
    /\ Len(tasks[1].res) = 2

----------------------------------------------------------------------------
(* C16 *)

\* C16: a call issues at most one validated and one unverified request per
\* URL (at most 4 in all), requests a URL a second time only after an
\* SSLError, and, every request coming back, returns its triple.
C16_BoundedRequests ==
    /\ [](/\ Len(issued) <= 2 * Len(Urls)
          /\ \A url \in Range(Urls), verify \in BOOLEAN :
                Cardinality(RequestsTo(url, verify)) <= 1
          /\ \A k \in 1..Len(issued) - 1 :
                issued[k + 1].url = issued[k].url
                => issued[k].kind = "SSLError"
          /\ tasks[1].st \in {"get", "retry", "returned"})
    /\ <>(/\ FetchReturned
           /\ tasks[1].fetch.status \in {"OK", "OK (SSL warning)",
                                         "File unreachable or 404"})

\* four requests: both URLs raised SSLError and the last retry was answered
C16_Witness ==
    /\ FetchReturned
    /\ Len(issued) = 4
    /\ issued[1].kind = "SSLError"
    /\ issued[3].kind = "SSLError"

----------------------------------------------------------------------------
(* C17 *)

\* what the loop adds for future i
OutputOf(i) ==
    IF tasks[i].st = "raised"
    THEN << [URL |-> targets[i], File |-> file_type, Result |-> "System Error",
             Details |-> <<tasks[i].exc>>, Reference |-> <<"-">>] >>
    ELSE tasks[i].res
RECURSIVE OutputsInOrder(_)
OutputsInOrder(order) ==
    IF order = <<>> THEN <<>>
    ELSE OutputOf(Head(order)) \o OutputsInOrder(Tail(order))

\* C17: at every moment the result is the concatenation, in the order of
\* collection, of the whole outputs of tasks that have completed; the output
\* of a returned task is one row per reference, in reference order, so the
\* rows of one target are contiguous and in reference order.
C17_WholeOutputsInCompletionOrder ==
    /\ \A k \in 1..Len(collected) :
          tasks[collected[k]].st \in {"returned", "raised"}
    /\ all_results = OutputsInOrder(collected)
    /\ \A i \in Range(collected) :
          tasks[i].st = "returned"
          => /\ Len(tasks[i].res) = Len(references)
             /\ \A j \in 1..Len(references) :
                   /\ tasks[i].res[j].URL = targets[i]
                   /\ tasks[i].res[j].Reference = references[j].original

\* two targets with two references each, collected in the reverse of the
\* input order
C17_Witness ==
    /\ pcMain = "done"
    /\ collected = <<2, 1>>
    /\ targets[1] # targets[2]
    /\ Completed = {1, 2}
    /\ Len(references) = 2
    /\ all_results[2].URL = targets[2]
    /\ all_results[3].URL = targets[1]

----------------------------------------------------------------------------
(* C18 *)

MatchResults == {"Valid", "Partially matched", "Not found"}

\* C18: every row has a result of the closed set; 'Error' only for a target
\* whose fetch failed, 'System Error' only for a target whose task raised;
\* a task whose fetch succeeded returns only 'Valid', 'Partially matched'
\* and 'Not found'.
C18_ClosedResultSet ==
    /\ \A k \in 1..Len(all_results) :
          /\ all_results[k].Result \in MatchResults \cup {"Error", "System Error"}
          /\ all_results[k].Result = "Error"
             => \E i \in Range(collected) :
                   /\ targets[i] = all_results[k].URL
                   /\ tasks[i].st = "returned"
                   /\ tasks[i].fetch.failed
          /\ all_results[k].Result = "System Error"
             => \E i \in Range(collected) :
                   /\ targets[i] = all_results[k].URL
                   /\ tasks[i].st = "raised"
    /\ \A i \in Completed :
          ~tasks[i].fetch.failed
          => \A j \in 1..Len(tasks[i].res) : tasks[i].res[j].Result \in MatchResults

\* a finished run with an 'Error' row, a 'Valid' row and a 'Partially
\* matched' row
C18_Witness ==
    /\ pcMain = "done"
    /\ \E k \in 1..Len(all_results) : all_results[k].Result = "Error"
    /\ \E k \in 1..Len(all_results) : all_results[k].Result = "Valid"
    /\ \E k \in 1..Len(all_results) : all_results[k].Result = "Partially matched"

----------------------------------------------------------------------------
(* C20 *)

\* C20: no future is collected twice; the loop ends only with every target
\* collected and the counter at len(targets); and, the requests coming back,
\* a started run does end.
C20_EveryTargetCollectedOnce ==
    /\ [](\A k1, k2 \in 1..Len(collected) :
             collected[k1] = collected[k2] => k1 = k2)
    /\ [](pcMain = "done"
          => /\ processed = Len(targets)
             /\ Range(collected) = 1..Len(targets))
    /\ (pcMain = "run") ~> (pcMain = "done")

\* a finished run with more targets than threads
C20_Witness ==
    /\ pcMain = "done"
    /\ processed = 2
    /\ threads = 1
    /\ Range(collected) = {1, 2}

====
